---- MODULE Spec2Model ----
(***************************************************************************)
(* Model of src/python/app.py: a Flask application with one view, index,   *)
(* registered with @app.get("/"), answering with                           *)
(* jsonify({"status": "ok", "flask_version": flask.__version__}).          *)
(*                                                                         *)
(* The state is the process after the module has been imported: the        *)
(* framework's version attribute, the application's routing table and view *)
(* table, and one request context per request the server has accepted.     *)
(* Requests are handled concurrently; every request context moves through  *)
(* push -> match -> dispatch -> view -> finalize, and the steps of         *)
(* different requests interleave freely.                                   *)
(***************************************************************************)
EXTENDS Naturals, Sequences, FiniteSets

VARIABLES
    flask_version,   \* flask_pkg.__version__, the module attribute index reads
    url_map,         \* app.url_map: the set of registered rules
    view_functions,  \* app.view_functions: the endpoints that have a view
    ctx              \* request contexts, one per accepted request id

vars == <<flask_version, url_map, view_functions, ctx>>

\* Number of requests the server accepts in one run of the model.
MaxRequests == 2

Ids == 1..MaxRequests

\* Version strings the installed framework may carry.
Versions == {"2.3.3", "3.0.0"}

\* Python's None.
None == "None"

-----------------------------------------------------------------------------
(* Requests.  A path is the sequence of its segments: "/" is <<>>,         *)
(* "/status" is <<"status">>, "/static/app.js" is <<"static", "app.js">>.  *)

Request(method, path, query_string, headers, data) ==
    [method |-> method, path |-> path, query_string |-> query_string,
     headers |-> headers, data |-> data]

Root == <<>>

Requests ==
    { Request("GET", Root, "", {}, ""),
      Request("GET", Root, "verbose=1", {}, ""),
      Request("GET", Root, "", {"X-Trace"}, "{\"status\": \"down\"}"),
      Request("POST", Root, "", {}, "{}"),
      Request("OPTIONS", Root, "", {}, ""),
      Request("GET", <<"status">>, "", {}, ""),
      Request("GET", <<"static", "app.js">>, "", {}, ""),
      Request("POST", <<"static", "app.js">>, "", {}, "{}"),
      Request("OPTIONS", <<"static", "app.js">>, "", {}, "") }

NoRequest == Request("", Root, "", {}, "")

-----------------------------------------------------------------------------
(* Responses and JSON.  A body is a sequence of tokens.                    *)

Response(status, mimetype, data, allow) ==
    [status |-> status, mimetype |-> mimetype, data |-> data, allow |-> allow]

NoResponse == Response(0, "", <<>>, {})

\* The order Python gives the object keys that occur (sort_keys=True).
KeyOrder == <<"flask_version", "runtime_version", "status", "uptime">>

SortedKeys(d) == SelectSeq(KeyOrder, LAMBDA k : k \in DOMAIN d)

\* json.dumps of a scalar: None becomes null, a string its own text.
dumps_value(v) == IF v = None THEN "null" ELSE v

\* json.loads of a scalar.
loads_value(t) == IF t = "null" THEN None ELSE t

RECURSIVE dumps_members(_, _)
dumps_members(d, keys) ==
    IF keys = <<>> THEN <<>>
    ELSE <<Head(keys), ":", dumps_value(d[Head(keys)])>>
         \o (IF Tail(keys) = <<>> THEN <<>> ELSE <<",">>)
         \o dumps_members(d, Tail(keys))

\* json.dumps of a dict with string values: { k : v , k : v }
dumps(d) == <<"{">> \o dumps_members(d, SortedKeys(d)) \o <<"}">>

\* json.loads of an object text: the mapping of its keys to its values.
loads(data) ==
    LET n    == (Len(data) - 1) \div 4
        keys == { data[4 * i - 2] : i \in 1..n }
    IN  [k \in keys |->
            loads_value(data[4 * (CHOOSE i \in 1..n : data[4 * i - 2] = k)])]

\* flask.jsonify: a 200 response of type application/json.
jsonify(d) == Response(200, "application/json", dumps(d), {})

-----------------------------------------------------------------------------
(* The application object and its routes.                                  *)

Rule(rule, methods, endpoint) ==
    [rule |-> rule, methods |-> methods, endpoint |-> endpoint]

\* Flask(__name__): static_folder defaults to "static", so the constructor
\* registers /static/<path:filename> for the endpoint "static".
Flask ==
    [url_map |-> {Rule(<<"static", "<path:filename>">>,
                       {"GET", "HEAD", "OPTIONS"}, "static")},
     view_functions |-> {"static"}]

\* The files of the static folder: the repository has none.
static_files == {}

\* A route registration that also accepts POST.
app_get_and_post(app, rule, endpoint) ==
    [url_map |-> app.url_map \cup
                    {Rule(rule, {"GET", "POST", "HEAD", "OPTIONS"}, endpoint)},
     view_functions |-> app.view_functions \cup {endpoint}]

\* A route registration whose rule takes every path below the root.
app_get_catch_all(app, rule, endpoint) ==
    [url_map |-> app.url_map \cup
                    {Rule(<<"<path:filename>">>, {"GET", "HEAD", "OPTIONS"}, endpoint)},
     view_functions |-> app.view_functions \cup {endpoint}]

\* A route registration under the wrong path.
app_get_wrong_path(app, rule, endpoint) ==
    [url_map |-> app.url_map \cup
                    {Rule(<<"status">>, {"GET", "HEAD", "OPTIONS"}, endpoint)},
     view_functions |-> app.view_functions \cup {endpoint}]

\* @app.get(rule): methods=["GET"]; the framework adds HEAD and OPTIONS.
app_get(app, rule, endpoint) ==
    [url_map |-> app.url_map \cup
                    {Rule(rule, {"GET", "HEAD", "OPTIONS"}, endpoint)},
     view_functions |-> app.view_functions \cup {endpoint}]

\* The application after the module body has run.
app == app_get(Flask, Root, "index")

\* Whether a rule's pattern matches a path.
RuleMatches(r, path) ==
    IF r.rule # <<>> /\ r.rule[Len(r.rule)] = "<path:filename>"
    THEN /\ Len(path) >= Len(r.rule)
         /\ \A i \in 1..(Len(r.rule) - 1) : path[i] = r.rule[i]
    ELSE path = r.rule

\* The text of the framework's default error page.
error_page(code) ==
    IF code = 404 THEN <<"<!doctype html>", "<title>404 Not Found</title>">>
    ELSE <<"<!doctype html>", "<title>405 Method Not Allowed</title>">>

\* The framework's response to an HTTPException nobody handles.
error_response(code, allow) == Response(code, "text/html", error_page(code), allow)

\* Flask.make_default_options_response: 200, the Allow header, no body.
options_response(allow) == Response(200, "text/html", <<>>, allow)

\* MapAdapter.match: the endpoint of the rule that matches path and method;
\* MethodNotAllowed when rules match the path only; NotFound when none does.
match(map, req) ==
    LET matching == { r \in map : RuleMatches(r, req.path) }
        allowed  == { r \in matching : req.method \in r.methods }
        valid    == UNION { r.methods : r \in matching }
    IN  IF allowed # {}
        THEN [endpoint |-> (CHOOSE r \in allowed : TRUE).endpoint,
              routing_exception |-> 0, allow |-> valid]
        ELSE IF matching # {}
        THEN [endpoint |-> None, routing_exception |-> 405, allow |-> valid]
        ELSE [endpoint |-> None, routing_exception |-> 404, allow |-> {}]

\* Flask.send_static_file: the file, or NotFound when it is not there.
static_response(filename) ==
    IF filename \in static_files
    THEN Response(200, "application/octet-stream", filename, {})
    ELSE error_response(404, {})

-----------------------------------------------------------------------------
(* The view.                                                               *)

\* The payload with a key that is not in the code.
index_extra_key ==
    [status |-> "ok", flask_version |-> flask_version, uptime |-> "0"]

\* The payload with another status text.
index_status_up == [status |-> "up", flask_version |-> flask_version]

\* The payload with the version left empty.
index_empty_version == [status |-> "ok", flask_version |-> ""]

\* index(): the dict literal handed to jsonify.
index == [status |-> "ok", flask_version |-> flask_version]

-----------------------------------------------------------------------------
(* Request contexts.                                                       *)

NoContext ==
    [pc |-> "idle", request |-> NoRequest, endpoint |-> None,
     routing_exception |-> 0, allow |-> {}, view |-> None,
     locals |-> <<>>, response |-> NoResponse]

Init ==
    /\ flask_version \in Versions
    /\ url_map = app.url_map
    /\ view_functions = app.view_functions
    /\ ctx = [i \in Ids |-> NoContext]

\* The server accepts a request and pushes its context.
wsgi_app(id, req) ==
    /\ ctx[id].pc = "idle"
    /\ \A j \in Ids : j < id => ctx[j].pc # "idle"
    /\ ctx' = [ctx EXCEPT ![id] = [NoContext EXCEPT !.pc = "pushed",
                                                     !.request = req]]
    /\ UNCHANGED <<flask_version, url_map, view_functions>>

\* RequestContext.match_request: bind the rule, or keep the routing exception.
match_request(id) ==
    /\ ctx[id].pc = "pushed"
    /\ LET m == match(url_map, ctx[id].request)
       IN  ctx' = [ctx EXCEPT ![id] =
                [@ EXCEPT !.pc = "matched", !.endpoint = m.endpoint,
                          !.routing_exception = m.routing_exception,
                          !.allow = m.allow]]
    /\ UNCHANGED <<flask_version, url_map, view_functions>>

\* Flask.dispatch_request: raise the routing exception, answer OPTIONS
\* automatically, or enter the view function of the matched endpoint.
dispatch_request(id) ==
    /\ ctx[id].pc = "matched"
    /\ ctx' = [ctx EXCEPT ![id] =
            IF ctx[id].routing_exception # 0
            THEN [@ EXCEPT !.pc = "dispatched",
                           !.response = error_response(ctx[id].routing_exception,
                                                       ctx[id].allow)]
            ELSE IF ctx[id].request.method = "OPTIONS"
            THEN [@ EXCEPT !.pc = "dispatched",
                           !.response = options_response(ctx[id].allow)]
            ELSE [@ EXCEPT !.pc = "view"]]
    /\ UNCHANGED <<flask_version, url_map, view_functions>>

\* The view of the static route: the file is not there, so NotFound is raised.
send_static_file(id) ==
    /\ ctx[id].pc = "view"
    /\ ctx[id].endpoint = "static"
    /\ ctx[id].endpoint \in view_functions
    /\ LET filename == SubSeq(ctx[id].request.path, 2, Len(ctx[id].request.path))
       IN  ctx' = [ctx EXCEPT ![id] =
                [@ EXCEPT !.pc = "dispatched", !.view = "static",
                          !.response = static_response(filename)]]
    /\ UNCHANGED <<flask_version, url_map, view_functions>>

\* A view that reports "warming" until a first response has been written.
index_dict_warming(id) ==
    /\ ctx[id].pc = "view"
    /\ ctx[id].endpoint = "index"
    /\ ctx[id].endpoint \in view_functions
    /\ ctx' = [ctx EXCEPT ![id] =
            [@ EXCEPT !.pc = "jsonify", !.view = "index",
                      !.locals = <<[index EXCEPT !.status =
                          IF \E j \in Ids : ctx[j].pc = "done"
                          THEN "ok" ELSE "warming"]>>]]
    /\ UNCHANGED <<flask_version, url_map, view_functions>>

\* A view that echoes the request's query string in the status field.
index_dict_echo(id) ==
    /\ ctx[id].pc = "view"
    /\ ctx[id].endpoint = "index"
    /\ ctx[id].endpoint \in view_functions
    /\ ctx' = [ctx EXCEPT ![id] =
            [@ EXCEPT !.pc = "jsonify", !.view = "index",
                      !.locals = <<[index EXCEPT !.status =
                          IF ctx[id].request.query_string = ""
                          THEN "ok" ELSE ctx[id].request.query_string]>>]]
    /\ UNCHANGED <<flask_version, url_map, view_functions>>

\* A view that unregisters itself once it has run.
index_dict_unregister(id) ==
    /\ ctx[id].pc = "view"
    /\ ctx[id].endpoint = "index"
    /\ ctx[id].endpoint \in view_functions
    /\ ctx' = [ctx EXCEPT ![id] =
            [@ EXCEPT !.pc = "jsonify", !.view = "index", !.locals = <<index>>]]
    /\ url_map' = { r \in url_map : r.endpoint # "index" }
    /\ UNCHANGED <<flask_version, view_functions>>

\* A view that keeps the version of the request in hand in the shared
\* module attribute.
index_dict_shared(id) ==
    /\ ctx[id].pc = "view"
    /\ ctx[id].endpoint = "index"
    /\ ctx[id].endpoint \in view_functions
    /\ ctx' = [ctx EXCEPT ![id] =
            [@ EXCEPT !.pc = "jsonify", !.view = "index", !.locals = <<index>>]]
    /\ flask_version' = IF ctx[id].request.query_string = ""
                        THEN flask_version ELSE ctx[id].request.query_string
    /\ UNCHANGED <<url_map, view_functions>>

\* index(), first half: evaluate the dict literal, reading flask.__version__.
index_dict(id) ==
    /\ ctx[id].pc = "view"
    /\ ctx[id].endpoint = "index"
    /\ ctx[id].endpoint \in view_functions
    /\ ctx' = [ctx EXCEPT ![id] =
            [@ EXCEPT !.pc = "jsonify", !.view = "index", !.locals = <<index>>]]
    /\ UNCHANGED <<flask_version, url_map, view_functions>>

\* index(), second half: jsonify the dict and return the response.
index_jsonify(id) ==
    /\ ctx[id].pc = "jsonify"
    /\ ctx' = [ctx EXCEPT ![id] =
            [@ EXCEPT !.pc = "dispatched", !.locals = <<>>,
                      !.response = jsonify(ctx[id].locals[1])]]
    /\ UNCHANGED <<flask_version, url_map, view_functions>>

\* Flask.finalize_request: the response is written and the context popped.
finalize_request(id) ==
    /\ ctx[id].pc = "dispatched"
    /\ ctx' = [ctx EXCEPT ![id].pc = "done"]
    /\ UNCHANGED <<flask_version, url_map, view_functions>>

Next ==
    \E id \in Ids :
        \/ \E req \in Requests : wsgi_app(id, req)
        \/ match_request(id)
        \/ dispatch_request(id)
        \/ send_static_file(id)
        \/ index_dict(id)
        \/ index_jsonify(id)
        \/ finalize_request(id)

Spec == Init /\ [][Next]_vars

-----------------------------------------------------------------------------
(* What the claims speak of.                                               *)

\* The request of context i has been answered (the response object exists).
Responded(i) == ctx[i].pc \in {"dispatched", "done"}

\* The response of context i was returned by the view index.
ByIndex(i) == Responded(i) /\ ctx[i].view = "index"

IsGetRoot(req) == req.method = "GET" /\ req.path = Root

\* The body of a response, parsed as JSON.
Body(i) == loads(ctx[i].response.data)

\* The status payload, whichever of the two names its version field carries.
IsStatusPayload(resp) ==
    /\ resp.mimetype = "application/json"
    /\ "status" \in DOMAIN loads(resp.data)

\* The response a request gets when it is the only one the process handles.
HandledAlone(req) ==
    LET m == match(app.url_map, req)
    IN  IF m.routing_exception # 0
        THEN error_response(m.routing_exception, m.allow)
        ELSE IF req.method = "OPTIONS" THEN options_response(m.allow)
        ELSE IF m.endpoint = "index" THEN jsonify(index)
        ELSE static_response(SubSeq(req.path, 2, Len(req.path)))

-----------------------------------------------------------------------------
(* C1 *)

C2_GetRootIs200 ==
    \A i \in Ids : Responded(i) /\ IsGetRoot(ctx[i].request) =>
        ctx[i].response.status = 200

\* A GET / with a query string got 200 after an earlier request ended in an
\* error response.
C2_Witness ==
    /\ MaxRequests >= 2
    /\ ctx[1].pc = "done" /\ ctx[1].response.status \in {404, 405}
    /\ ctx[2].pc = "done" /\ IsGetRoot(ctx[2].request)
    /\ ctx[2].request.query_string # ""
    /\ ctx[2].response.status = 200

(* C3 *)

\* C3: in every response the index handler produces, status is "ok".
C3_StatusIsOk ==
    \A i \in Ids : ByIndex(i) =>
        /\ "status" \in DOMAIN Body(i)
        /\ Body(i)["status"] = "ok"

\* The second of two requests, one that carries a body saying otherwise, was
\* answered by index with status "ok".
C3_Witness ==
    /\ MaxRequests >= 2
    /\ ctx[1].pc = "done"
    /\ ByIndex(2) /\ ctx[2].request.data # ""
    /\ Body(2)["status"] = "ok"

(* C4 *)

C5_Idempotent ==
    \A i, j \in Ids :
        ( /\ Responded(i) /\ Responded(j)
          /\ IsGetRoot(ctx[i].request)
          /\ ctx[i].request = ctx[j].request )
        => /\ ctx[i].response.status = ctx[j].response.status
           /\ ctx[i].response.data = ctx[j].response.data

\* The same GET / request was issued twice, the second time after the first
\* response was written, and both were answered by index.
C5_Witness ==
    /\ MaxRequests >= 2
    /\ ctx[1].pc = "done" /\ ctx[1].view = "index"
    /\ ctx[2].pc = "dispatched" /\ ctx[2].view = "index"
    /\ ctx[1].request = ctx[2].request
    /\ IsGetRoot(ctx[1].request)

(* C6 *)

\* C6: a POST / never enters the index handler and never gets the status
\* payload; it gets the framework's default 405 page.
C6_PostRootIs405 ==
    \A i \in Ids : ctx[i].request.method = "POST" /\ ctx[i].request.path = Root =>
        /\ ctx[i].view # "index"
        /\ ctx[i].pc # "jsonify"
        /\ Responded(i) =>
            /\ ctx[i].response.status = 405
            /\ ctx[i].response.mimetype # "application/json"
            /\ ctx[i].response.data = error_page(405)

\* A POST / has been answered.
C6_Witness ==
    \E i \in Ids : /\ ctx[i].pc = "done"
                   /\ ctx[i].request.method = "POST"
                   /\ ctx[i].request.path = Root
                   /\ ctx[i].response.status = 405

(* C7 *)

C8_RequestContentIgnored ==
    \A i, j \in Ids :
        ( /\ Responded(i) /\ Responded(j)
          /\ IsGetRoot(ctx[i].request) /\ IsGetRoot(ctx[j].request) )
        => /\ ctx[i].response.status = ctx[j].response.status
           /\ ctx[i].response.data = ctx[j].response.data

\* Two GET / requests that differ in query string, or in headers and body,
\* have both been answered.
C8_Witness ==
    \E i, j \in Ids :
        /\ ctx[i].pc = "done" /\ ctx[j].pc = "done"
        /\ IsGetRoot(ctx[i].request) /\ IsGetRoot(ctx[j].request)
        /\ \/ ctx[i].request.query_string # ctx[j].request.query_string
           \/ /\ ctx[i].request.headers # ctx[j].request.headers
              /\ ctx[i].request.data # ctx[j].request.data
        /\ ctx[i].response = ctx[j].response

(* C9 *)

\* C9: under every interleaving of the handling steps of the requests in
\* flight, each request gets the response it would get if handled alone, and
\* what a handler holds between its steps is its own payload.
C9_Independent ==
    \A i \in Ids :
        /\ Responded(i) => ctx[i].response = HandledAlone(ctx[i].request)
        /\ ctx[i].pc = "jsonify" => ctx[i].locals = <<index>>

\* A request that arrived later was answered by index while an earlier one
\* was still inside the view.
C9_Witness ==
    \E i, j \in Ids : /\ i < j
                      /\ ctx[i].pc = "jsonify"
                      /\ ctx[j].pc = "done" /\ ctx[j].view = "index"

(* C10 *)

\* C10, as stated: with (GET, "/") taken to be the only route, a request to
\* any other path never enters index, never gets the status payload and gets
\* the framework's default 404 page.
C10_OtherPathsAlways404 ==
    \A i \in Ids : ctx[i].request.path # Root =>
        /\ ctx[i].view # "index"
        /\ Responded(i) =>
            /\ ~IsStatusPayload(ctx[i].response)
            /\ ctx[i].response.status = 404
            /\ ctx[i].response.data = error_page(404)

\* C10, amended: the only rule that leads to index is "/", for GET and the
\* HEAD and OPTIONS the framework adds; the only other rule is the
\* framework's own /static/<path:filename>.  A request to any other path than
\* "/" never enters index and never gets the status payload: it gets the
\* default 404 page, except under /static/, where a method the static rule
\* does not take gets the default 405 page and OPTIONS the automatic answer.
C10_OtherPathsNeverReachIndex ==
    /\ { r \in url_map : r.endpoint = "index" }
           = {Rule(Root, {"GET", "HEAD", "OPTIONS"}, "index")}
    /\ { r.endpoint : r \in url_map } = {"index", "static"}
    /\ \A i \in Ids : ctx[i].request.path # Root =>
        /\ ctx[i].view # "index"
        /\ ctx[i].pc # "jsonify"
        /\ Responded(i) =>
            /\ ~IsStatusPayload(ctx[i].response)
            /\ IF ctx[i].request.path[1] # "static"
                  \/ ctx[i].request.method \in {"GET", "HEAD"}
               THEN /\ ctx[i].response.status = 404
                    /\ ctx[i].response.data = error_page(404)
               ELSE IF ctx[i].request.method = "OPTIONS"
               THEN /\ ctx[i].response.status = 200
                    /\ ctx[i].response.data = <<>>
               ELSE /\ ctx[i].response.status = 405
                    /\ ctx[i].response.data = error_page(405)

\* A GET of an unknown path was answered 404 and a POST under /static/ 405.
C10_Witness ==
    \E i, j \in Ids :
        /\ ctx[i].pc = "done" /\ ctx[i].request.path = <<"status">>
        /\ ctx[i].response.status = 404
        /\ ctx[j].pc = "done" /\ ctx[j].request.path = <<"static", "app.js">>
        /\ ctx[j].request.method = "POST"
        /\ ctx[j].response.status = 405

====
